---- MODULE Spec2Model ----
(***************************************************************************)
(* Model of the Smooth Path plug-in (smooth-path.c): the corner            *)
(* classifier angle_between, the tridiagonal solver triagonal_solve, the   *)
(* per-axis spline fit and the control point update of set_bezier_path,    *)
(* driven by the plug-in's run procedure.                                  *)
(*                                                                         *)
(* gdouble values are modelled as exact rationals <<num, den>> in lowest   *)
(* terms with den > 0, so every statement below is a statement about the   *)
(* code in exact arithmetic; rounding is not modelled.                     *)
(* GArray and the ctlpts array are sequences; Ix(a, i) reads the element   *)
(* the source indexes with i (counted from 0).                             *)
(***************************************************************************)
EXTENDS Integers, Sequences, FiniteSets, TLC

(***************************************************************************)
(* Exact arithmetic standing for gdouble.                                  *)
(***************************************************************************)
Abs(i) == IF i < 0 THEN -i ELSE i

RECURSIVE Gcd(_, _)
Gcd(a, b) == IF b = 0 THEN a ELSE Gcd(b, a % b)

Norm(n, d) ==
    LET g == Gcd(Abs(n), Abs(d))
        s == IF d < 0 THEN -1 ELSE 1
    IN  <<(s * n) \div g, (s * d) \div g>>

R(i) == <<i, 1>>

\* sums and products cancel common factors first, to keep the integers small
RAdd(p, q) ==
    LET g == Gcd(p[2], q[2])
    IN  Norm(p[1] * (q[2] \div g) + q[1] * (p[2] \div g), (p[2] \div g) * q[2])

RSub(p, q) == RAdd(p, <<-q[1], q[2]>>)

RMul(p, q) ==
    LET g1 == Gcd(Abs(p[1]), q[2])
        g2 == Gcd(Abs(q[1]), p[2])
    IN  Norm((p[1] \div g1) * (q[1] \div g2), (p[2] \div g2) * (q[2] \div g1))

RDiv(p, q) == RMul(p, IF q[1] < 0 THEN <<-q[2], -q[1]>> ELSE <<q[2], q[1]>>)

Sign(i) == IF i < 0 THEN -1 ELSE IF i > 0 THEN 1 ELSE 0

(***************************************************************************)
(* GArray access.                                                          *)
(***************************************************************************)
Ix(a, i) == a[i + 1]
Put(a, i, v) == [a EXCEPT ![i + 1] = v]
RemoveIndex(a, i) == SubSeq(a, 1, i) \o SubSeq(a, i + 2, Len(a))

\* an array of n elements, each v
RECURSIVE Filled(_, _)
Filled(n, v) == IF n = 0 THEN <<>> ELSE Append(Filled(n - 1, v), v)

(***************************************************************************)
(* triagonal_solve: the two sweeps for the system with 4 on the diagonal   *)
(* and 1 beside it.  asb is the output array, asd the right-hand side.     *)
(***************************************************************************)
\* the forward loop with the pivot taken from asc[i] in place of asc[i - 1]
RECURSIVE ForwardSweepOwnPivot(_, _, _)
ForwardSweepOwnPivot(i, asc, asd) ==
    IF i >= Len(asd) THEN <<asc, asd>>
    ELSE LET id == RSub(R(4), Ix(asc, i))
         IN  ForwardSweepOwnPivot(i + 1,
                          Put(asc, i, RDiv(Ix(asc, i), id)),
                          Put(asd, i, RDiv(RSub(Ix(asd, i), Ix(asd, i - 1)), id)))

RECURSIVE ForwardSweep(_, _, _)
ForwardSweep(i, asc, asd) ==
    IF i >= Len(asd) THEN <<asc, asd>>
    ELSE LET id == RSub(R(4), Ix(asc, i - 1))
         IN  ForwardSweep(i + 1,
                          Put(asc, i, RDiv(Ix(asc, i), id)),
                          Put(asd, i, RDiv(RSub(Ix(asd, i), Ix(asd, i - 1)), id)))

RECURSIVE BackSubstitute(_, _, _, _)
BackSubstitute(i, asb, asc, asd) ==
    IF i < 0 THEN asb
    ELSE BackSubstitute(i - 1,
                        Put(asb, i, RSub(Ix(asd, i), RMul(Ix(asc, i), Ix(asb, i + 1)))),
                        asc, asd)

\* triagonal_solve with the first right-hand side left undivided
triagonal_solve_unscaled(asb, asd) ==
    LET len  == Len(asb)
        asc0 == Filled(len, R(1))
        asc1 == Put(asc0, 0, RMul(Ix(asc0, 0), <<1, 4>>))
        fw   == ForwardSweep(1, asc1, asd)
        asbL == Put(asb, len - 1, Ix(fw[2], len - 1))
    IN  BackSubstitute(len - 2, asbL, fw[1], fw[2])

triagonal_solve(asb, asd) ==
    LET len  == Len(asb)
        asc0 == Filled(len, R(1))
        asc1 == Put(asc0, 0, RMul(Ix(asc0, 0), <<1, 4>>))
        asd1 == Put(asd, 0, RMul(Ix(asd, 0), <<1, 4>>))
        fw   == ForwardSweep(1, asc1, asd1)
        asbL == Put(asb, len - 1, Ix(fw[2], len - 1))
    IN  BackSubstitute(len - 2, asbL, fw[1], fw[2])

(***************************************************************************)
(* The per-axis fit of set_bezier_path (the same code for x and for y):    *)
(* ac holds the axis values of the anchors, padded when the stroke is      *)
(* closed.  The result holds asb after the prepend/append and the interior *)
(* control values of every segment of ac.                                  *)
(***************************************************************************)
\* the loop filling asd[1 .. len - 4], from index n on
RECURSIVE RhsMiddle(_, _, _)
RhsMiddle(ac, asd, n) ==
    IF n < Len(ac) - 3
      THEN RhsMiddle(ac, Put(asd, n, RMul(R(6), Ix(ac, n + 1))), n + 1)
      ELSE asd

\* asd as handed to triagonal_solve; g_array_set_size left it zeroed
RightHandSide(ac) ==
    LET len  == Len(ac)
        asd0 == Put(Filled(len - 2, R(0)), 0,
                    RSub(RMul(R(6), Ix(ac, 1)), Ix(ac, 0)))
    IN  Put(RhsMiddle(ac, asd0, 1), len - 3,
            RSub(RMul(R(6), Ix(ac, len - 2)), Ix(ac, len - 1)))

\* the size asd and asb are set to: the number of unknowns of the axis
Unknowns(ac) == Len(ac) - 2

\* asd->len == 1: the single unknown is computed without the solver
ClosedForm(ac) == Unknowns(ac) = 1

\* asb before the prepend and append; every element of it is written
InteriorNodes(ac) ==
    IF ClosedForm(ac)
      THEN <<RSub(RSub(RMul(<<3, 2>>, Ix(ac, 1)), RMul(<<1, 4>>, Ix(ac, 0))),
                  RMul(<<1, 4>>, Ix(ac, 2)))>>
      ELSE triagonal_solve(Filled(Unknowns(ac), R(0)), RightHandSide(ac))

Nodes(ac) == <<Ix(ac, 0)>> \o InteriorNodes(ac) \o <<Ix(ac, Len(ac) - 1)>>

\* the loops appending to acon1 and to acon2, from index n on
RECURSIVE Con1From(_, _, _)
Con1From(asb, acon, n) ==
    IF n < Len(asb)
      THEN Con1From(asb,
               Append(acon, RAdd(RDiv(RMul(R(2), Ix(asb, n - 1)), R(3)),
                                 RDiv(Ix(asb, n), R(3)))),
               n + 1)
      ELSE acon

RECURSIVE Con2From(_, _, _)
Con2From(asb, acon, n) ==
    IF n < Len(asb)
      THEN Con2From(asb,
               Append(acon, RAdd(RDiv(Ix(asb, n - 1), R(3)),
                                 RDiv(RMul(R(2), Ix(asb, n)), R(3)))),
               n + 1)
      ELSE acon

Con1(asb) == Con1From(asb, <<>>, 1)
Con2(asb) == Con2From(asb, <<>>, 1)

(***************************************************************************)
(* angle_between.  ret = 180 - |atan2(y, x)| in degrees is never computed  *)
(* as a number: only its order against a configured angle T is used, and   *)
(* ret > T exactly when cos|atan2(y, x)| > -cos T, where                   *)
(* cos|atan2(y, x)| = x / sqrt(x^2 + y^2).  For x = y = 0 the sign of the  *)
(* zero x decides: atan2(+-0, +0) = +-0 and atan2(+-0, -0) = +-pi, so the  *)
(* cosine is 1 or -1.  NegCos(T) gives -cos T as a sign and a square p/q;  *)
(* the square for 170 degrees is cos^2(10 deg) = 0.96984631... cut to five *)
(* digits, which no direction between the model's points comes near.       *)
(***************************************************************************)
Angles == {60, 120, 170, 180}

NegCos(T) ==
    CASE T = 60  -> [s |-> -1, p |-> 1, q |-> 4]
      [] T = 120 -> [s |-> 1, p |-> 1, q |-> 4]
      [] T = 170 -> [s |-> 1, p |-> 96985, q |-> 100000]
      [] T = 180 -> [s |-> 1, p |-> 1, q |-> 1]

\* a * b is -0.0: one factor is 0.0 and the other negative (a difference of
\* two coordinates is never -0.0)
MinusZeroProduct(a, b) == (a[1] = 0 /\ b[1] < 0) \/ (b[1] = 0 /\ a[1] < 0)

\* atan2's arguments y and x, and whether x is -0.0: a sum of two zero
\* products is -0.0 only when both are
Atan2Args(v1x, v1y, v2x, v2y) ==
    [y      |-> RAdd(RMul(RSub(R(0), v1y), v2x), RMul(v1x, v2y)),
     x      |-> RAdd(RMul(v1x, v2x), RMul(v1y, v2y)),
     xminus |-> MinusZeroProduct(v1x, v2x) /\ MinusZeroProduct(v1y, v2y)]

\* the sign of ret - T for atan2's arguments t
RetCmp(t, T) ==
    LET yi   == t.y[1] * t.x[2]
        xi   == t.x[1] * t.y[2]
        zero == xi = 0 /\ yi = 0
        su   == IF zero THEN (IF t.xminus THEN -1 ELSE 1) ELSE Sign(xi)
        x2   == IF zero THEN 1 ELSE xi * xi
        r2   == IF zero THEN 1 ELSE xi * xi + yi * yi
        c    == NegCos(T)
    IN  IF su # c.s THEN Sign(su - c.s)
        ELSE su * Sign(x2 * c.q - c.p * r2)

\* ret <= T in place of ret < T
RetLessOrEqual(t, T) == RetCmp(t, T) <= 0
RetLess(t, T) == RetCmp(t, T) < 0
RetGreater(t, T) == RetCmp(t, T) > 0

InRange(t, ang_min, ang_max) ==
    IF ang_max > ang_min
      THEN RetLess(t, ang_max) /\ RetGreater(t, ang_min)
      ELSE RetLess(t, ang_max) \/ RetGreater(t, ang_min)

\* angle_between returning FALSE when smoothing is not restricted
angle_between_false(sv, vax, vay, vbx, vby, vcx, vcy) ==
    IF ~sv.smooth_specified THEN 0
    ELSE LET v1x == RSub(vbx, vax)
             v1y == RSub(vby, vay)
             v2x == RSub(vcx, vbx)
             v2y == RSub(vcy, vby)
         IN  IF InRange(Atan2Args(v1x, v1y, v2x, v2y), sv.ang_min, sv.ang_max)
               THEN 1 ELSE 0

\* the gboolean returned: -1 when smoothing is not restricted, else 1 or 0
angle_between(sv, vax, vay, vbx, vby, vcx, vcy) ==
    IF ~sv.smooth_specified THEN -1
    ELSE LET v1x == RSub(vbx, vax)
             v1y == RSub(vby, vay)
             v2x == RSub(vcx, vbx)
             v2y == RSub(vcy, vby)
         IN  IF InRange(Atan2Args(v1x, v1y, v2x, v2y), sv.ang_min, sv.ang_max)
               THEN 1 ELSE 0

(***************************************************************************)
(* set_bezier_path.  ctlpts holds 6 scalars per anchor: incoming handle,   *)
(* anchor, outgoing handle.                                                *)
(***************************************************************************)
MinPoints == 18

TooFewPoints(num_points) == num_points < MinPoints

\* the anchors' values on one axis (off = 2 for x, 3 for y)
RECURSIVE AnchorAxisFrom(_, _, _, _)
AnchorAxisFrom(ctlpts, off, ac, n) ==
    IF n < Len(ctlpts) \div 6
      THEN AnchorAxisFrom(ctlpts, off, Append(ac, Ix(ctlpts, n * 6 + off)), n + 1)
      ELSE ac

AnchorAxis(ctlpts, off) == AnchorAxisFrom(ctlpts, off, <<>>, 0)

\* the last point before, the first two points after, on the axis 2 + dy
Padded(ac, ctlpts, dy) ==
    <<Ix(ctlpts, Len(ctlpts) - 4 + dy)>> \o ac
        \o <<Ix(ctlpts, 2 + dy)>> \o <<Ix(ctlpts, 8 + dy)>>

AxisValues(ctlpts, closed, dy) ==
    IF closed THEN Padded(AnchorAxis(ctlpts, 2 + dy), ctlpts, dy)
              ELSE AnchorAxis(ctlpts, 2 + dy)

\* the trimming with the removal of the first element left out
TrimmedLastOnly(acon) == RemoveIndex(acon, Len(acon) - 1)

Trimmed(acon) == RemoveIndex(RemoveIndex(acon, Len(acon) - 1), 0)

\* one of aconx1, aconx2, acony1, acony2 as the update reads it
ConArray(acon, closed) == IF closed THEN Trimmed(acon) ELSE acon

\* the arrays the update reads: aconx1, aconx2, acony1, acony2, with asb as
\* it stood after the x pass (bx) and after the y pass (by)
Interior(ctlpts, closed) ==
    LET bx == Nodes(AxisValues(ctlpts, closed, 0))
        by == Nodes(AxisValues(ctlpts, closed, 1))
    IN  [bx |-> bx, by |-> by,
         x1 |-> ConArray(Con1(bx), closed), x2 |-> ConArray(Con2(bx), closed),
         y1 |-> ConArray(Con1(by), closed), y2 |-> ConArray(Con2(by), closed)]

\* angle_between on the points at ctlpts[a], ctlpts[b], ctlpts[c]
Corner(sv, ctlpts, a, b, c) ==
    angle_between(sv, Ix(ctlpts, a), Ix(ctlpts, a + 1), Ix(ctlpts, b),
                  Ix(ctlpts, b + 1), Ix(ctlpts, c), Ix(ctlpts, c + 1)) # 0

SetPoint(ctlpts, i, vx, vy) == Put(Put(ctlpts, i, vx), i + 1, vy)

\* UpdateFirst without the test of closed
UpdateFirstAlways(sv, ctlpts, closed, con) ==
    LET np == Len(ctlpts)
    IN  IF Corner(sv, ctlpts, np - 4, 2, 8)
          THEN SetPoint(ctlpts, 0, Ix(con.x2, Len(con.x2) - 1),
                        Ix(con.y2, Len(con.y2) - 1))
          ELSE ctlpts

UpdateFirst(sv, ctlpts, closed, con) ==
    LET np == Len(ctlpts)
    IN  IF closed /\ Corner(sv, ctlpts, np - 4, 2, 8)
          THEN SetPoint(ctlpts, 0, Ix(con.x2, Len(con.x2) - 1),
                        Ix(con.y2, Len(con.y2) - 1))
          ELSE ctlpts

\* UpdateOutgoing writing at the anchor's index in place of the handle's
UpdateOutgoingAtAnchor(sv, ctlpts, closed, con, n) ==
    LET np  == Len(ctlpts)
        new == SetPoint(ctlpts, n * 6 + 2, Ix(con.x1, n), Ix(con.y1, n))
    IN  IF n = 0
          THEN IF closed /\ Corner(sv, ctlpts, np - 4, 2, 8) THEN new
               ELSE IF ~closed /\ ~sv.smooth_specified THEN new
               ELSE ctlpts
          ELSE IF Corner(sv, ctlpts, n * 6 - 4, n * 6 + 2, n * 6 + 8) THEN new
               ELSE ctlpts

\* UpdateOutgoing with an open stroke's first handle written under every setting
UpdateOutgoingOpenFirst(sv, ctlpts, closed, con, n) ==
    LET np  == Len(ctlpts)
        new == SetPoint(ctlpts, n * 6 + 4, Ix(con.x1, n), Ix(con.y1, n))
    IN  IF n = 0
          THEN IF closed /\ Corner(sv, ctlpts, np - 4, 2, 8) THEN new
               ELSE IF ~closed THEN new
               ELSE ctlpts
          ELSE IF Corner(sv, ctlpts, n * 6 - 4, n * 6 + 2, n * 6 + 8) THEN new
               ELSE ctlpts

\* the outgoing handle of anchor n, first half of the loop body
UpdateOutgoing(sv, ctlpts, closed, con, n) ==
    LET np  == Len(ctlpts)
        new == SetPoint(ctlpts, n * 6 + 4, Ix(con.x1, n), Ix(con.y1, n))
    IN  IF n = 0
          THEN IF closed /\ Corner(sv, ctlpts, np - 4, 2, 8) THEN new
               ELSE IF ~closed /\ ~sv.smooth_specified THEN new
               ELSE ctlpts
          ELSE IF Corner(sv, ctlpts, n * 6 - 4, n * 6 + 2, n * 6 + 8) THEN new
               ELSE ctlpts

\* UpdateIncoming taking the handle from aconx1, acony1
UpdateIncomingCon1(sv, ctlpts, closed, con, n) ==
    LET np  == Len(ctlpts)
        len == np \div 6
        new == SetPoint(ctlpts, n * 6 + 6, Ix(con.x1, n), Ix(con.y1, n))
    IN  IF n = len - 2
          THEN IF closed /\ Corner(sv, ctlpts, np - 10, np - 4, 2) THEN new
               ELSE IF ~closed /\ ~sv.smooth_specified THEN new
               ELSE ctlpts
          ELSE IF Corner(sv, ctlpts, n * 6 + 2, n * 6 + 8, n * 6 + 14) THEN new
               ELSE ctlpts

\* the incoming handle of anchor n + 1, second half of the loop body
UpdateIncoming(sv, ctlpts, closed, con, n) ==
    LET np  == Len(ctlpts)
        len == np \div 6
        new == SetPoint(ctlpts, n * 6 + 6, Ix(con.x2, n), Ix(con.y2, n))
    IN  IF n = len - 2
          THEN IF closed /\ Corner(sv, ctlpts, np - 10, np - 4, 2) THEN new
               ELSE IF ~closed /\ ~sv.smooth_specified THEN new
               ELSE ctlpts
          ELSE IF Corner(sv, ctlpts, n * 6 + 2, n * 6 + 8, n * 6 + 14) THEN new
               ELSE ctlpts

RECURSIVE UpdateInterior(_, _, _, _, _)
UpdateInterior(sv, ctlpts, closed, con, n) ==
    IF n < Len(ctlpts) \div 6 - 1
      THEN UpdateInterior(sv,
               UpdateIncoming(sv, UpdateOutgoing(sv, ctlpts, closed, con, n),
                              closed, con, n),
               closed, con, n + 1)
      ELSE ctlpts

\* UpdateLast gated by the corner at the first anchor
UpdateLastByFirstCorner(sv, ctlpts, closed, con) ==
    LET np == Len(ctlpts)
    IN  IF closed /\ Corner(sv, ctlpts, np - 4, 2, 8)
          THEN SetPoint(ctlpts, np - 2, Ix(con.x1, Len(con.x1) - 1),
                        Ix(con.y1, Len(con.y1) - 1))
          ELSE ctlpts

UpdateLast(sv, ctlpts, closed, con) ==
    LET np == Len(ctlpts)
    IN  IF closed /\ Corner(sv, ctlpts, np - 10, np - 4, 2)
          THEN SetPoint(ctlpts, np - 2, Ix(con.x1, Len(con.x1) - 1),
                        Ix(con.y1, Len(con.y1) - 1))
          ELSE ctlpts

\* the indices at which the update may read aconx1, aconx2, acony1, acony2,
\* the arrays holding conlen elements and the stroke len anchors
ConIndices(len, closed, conlen) ==
    (IF closed THEN {conlen - 1} ELSE {}) \cup 0..(len - 2)

\* the indices at which the update may read or write ctlpts for loop index n
LoopCtlIndices(np, closed, n) ==
    LET len   == np \div 6
        first == IF n = 0
                   THEN IF closed THEN {np - 4, np - 3, 2, 3, 8, 9} ELSE {}
                   ELSE {n * 6 - 4, n * 6 - 3, n * 6 + 2, n * 6 + 3,
                         n * 6 + 8, n * 6 + 9}
        last  == IF n = len - 2
                   THEN IF closed
                          THEN {np - 10, np - 9, np - 4, np - 3, 2, 3}
                          ELSE {}
                   ELSE {n * 6 + 2, n * 6 + 3, n * 6 + 8, n * 6 + 9,
                         n * 6 + 14, n * 6 + 15}
    IN  first \cup last \cup (n * 6 + 4)..(n * 6 + 7)

\* the indices at which the update may read or write ctlpts
CtlIndices(np, closed) ==
    (IF closed
       THEN {np - 10, np - 9, np - 4, np - 3, 0, 1, 2, 3, 8, 9, np - 2, np - 1}
       ELSE {})
    \cup UNION {LoopCtlIndices(np, closed, n) : n \in 0..(np \div 6 - 2)}

\* gimp_vectors_stroke_new_from_points: the stroke added to the new path
NewFromPoints(ctlpts, closed) == [ctlpts |-> ctlpts, closed |-> closed]

NoArrays == [bx |-> <<>>, by |-> <<>>, x1 |-> <<>>, x2 |-> <<>>,
             y1 |-> <<>>, y2 |-> <<>>]

\* the arrays set_bezier_path builds before the update; none on early return
Arrays(ctlpts, closed) ==
    IF TooFewPoints(Len(ctlpts)) THEN NoArrays ELSE Interior(ctlpts, closed)

\* set_bezier_path whose early return adds the stroke as an open one
set_bezier_path_open_return(sv, ctlpts, closed, con) ==
    IF TooFewPoints(Len(ctlpts)) THEN NewFromPoints(ctlpts, FALSE)
    ELSE NewFromPoints(
             UpdateLast(sv,
                 UpdateInterior(sv, UpdateFirst(sv, ctlpts, closed, con),
                                closed, con, 0),
                 closed, con),
             closed)

\* the stroke set_bezier_path adds to the new path, con being Arrays(...)
set_bezier_path(sv, ctlpts, closed, con) ==
    IF TooFewPoints(Len(ctlpts)) THEN NewFromPoints(ctlpts, closed)
    ELSE NewFromPoints(
             UpdateLast(sv,
                 UpdateInterior(sv, UpdateFirst(sv, ctlpts, closed, con),
                                closed, con, 0),
                 closed, con),
             closed)

(***************************************************************************)
(* The strokes the plug-in is run on: 1 to MaxAnchors anchors, each on one *)
(* of four points that offer straight corners (three of them lie on a      *)
(* line), right, sharp and blunt corners and, by repetition, zero-length   *)
(* sides; open or closed; every anchor with its incoming handle one unit   *)
(* to the lower left and its outgoing handle one unit to the upper right.  *)
(***************************************************************************)
MaxAnchors == 4

Points == {<<0, 0>>, <<1, 0>>, <<2, 0>>, <<1, 1>>}

\* the 6 scalars of each of the first n anchors
RECURSIVE FlattenTo(_, _)
FlattenTo(anchors, n) ==
    IF n = 0 THEN <<>>
    ELSE LET a == anchors[n]
         IN  FlattenTo(anchors, n - 1)
                 \o <<R(a[1] - 1), R(a[2] - 1), R(a[1]), R(a[2]),
                      R(a[1] + 1), R(a[2] + 1)>>

Flatten(anchors) == FlattenTo(anchors, Len(anchors))

Strokes ==
    {NewFromPoints(Flatten(a), c) :
        a \in UNION {[1..m -> Points] : m \in 1..MaxAnchors}, c \in BOOLEAN}

(***************************************************************************)
(* Open strokes of 3 to MaxAnchors anchors evenly spaced on a line: anchor *)
(* i lies at (a0 + i * d, i * e).                                          *)
(***************************************************************************)
MaxStart == 1
MaxSlope == 2

LineAnchors(m, a0, d, e) == [i \in 1..m |-> <<a0 + (i - 1) * d, (i - 1) * e>>]

LineStrokes ==
    {NewFromPoints(Flatten(LineAnchors(m, a0, d, e)), FALSE) :
        m \in 3..MaxAnchors, a0 \in 0..MaxStart,
        d \in -MaxSlope..MaxSlope, e \in -MaxSlope..MaxSlope}

\* the settings a run is given; angle_between returns before it reads the
\* angles when smooth_specified is off, and they then vary in ang_max only
Settings ==
    {sv \in [smooth_specified : BOOLEAN, ang_min : Angles, ang_max : Angles] :
        sv.smooth_specified \/ sv.ang_min = 60}

NoStroke == [ctlpts |-> <<>>, closed |-> FALSE]

(***************************************************************************)
(* State.  svals is the plug-in's static settings record; stroke is the    *)
(* stroke of the path the plug-in is run on, as                            *)
(* gimp_vectors_stroke_get_points returns it; new_stroke is the stroke of  *)
(* the new path; arrays records the arrays set_bezier_path built in its    *)
(* call (they are freed when it returns); status is the status run returns *)
(* ("idle" before it is called).  asd_in and asb_out belong to a call of    *)
(* triagonal_solve on its own: the right-hand side handed to it and asb as *)
(* it returns (both empty when no such call is made).                      *)
(***************************************************************************)
VARIABLES svals, stroke, new_stroke, arrays, status, asd_in, asb_out

vars == <<svals, stroke, new_stroke, arrays, status, asd_in, asb_out>>

StartWith(strokes) ==
    /\ svals = [smooth_specified |-> FALSE, ang_min |-> 60, ang_max |-> 120]
    /\ stroke \in strokes
    /\ new_stroke = NoStroke
    /\ arrays = NoArrays
    /\ status = "idle"
    /\ asd_in = <<>>
    /\ asb_out = <<>>

Init == StartWith(Strokes)

\* run reaching smooth_path: interactively with the dialog closed by OK, or
\* non-interactively with all 6 parameters; sv is what the dialog's widgets
\* or the parameters 3 to 5 put into svals
RunSmooth ==
    /\ status = "idle"
    /\ arrays' = Arrays(stroke.ctlpts, stroke.closed)
    /\ \E sv \in Settings :
          /\ svals' = sv
          /\ new_stroke' = set_bezier_path(sv, stroke.ctlpts, stroke.closed, arrays')
    /\ status' = "SUCCESS"
    /\ UNCHANGED <<stroke, asd_in, asb_out>>

\* run interactively, the dialog cancelled after its widgets wrote sv: run
\* returns at once, with the status it was initialised to
RunCancel ==
    /\ status = "idle"
    /\ \E sv \in Settings : svals' = sv
    /\ status' = "SUCCESS"
    /\ UNCHANGED <<stroke, new_stroke, arrays, asd_in, asb_out>>

\* run non-interactively with nparams # 6
RunCallingError ==
    /\ status = "idle"
    /\ status' = "CALLING_ERROR"
    /\ UNCHANGED <<svals, stroke, new_stroke, arrays, asd_in, asb_out>>

\* run with GIMP_RUN_WITH_LAST_VALS
RunWithLastVals ==
    /\ status = "idle"
    /\ status' = "PASS_THROUGH"
    /\ UNCHANGED <<svals, stroke, new_stroke, arrays, asd_in, asb_out>>

Next == RunSmooth \/ RunCancel \/ RunCallingError \/ RunWithLastVals

Spec == Init /\ [][Next]_vars

\* the plug-in run on strokes whose anchors are evenly spaced on a line
InitLine == StartWith(LineStrokes)

SpecLine == InitLine /\ [][Next]_vars

\* the plug-in run on the open strokes only
OpenStrokes == {s \in Strokes : ~s.closed}

InitOpen == StartWith(OpenStrokes)

SpecOpen == InitOpen /\ [][Next]_vars

(***************************************************************************)
(* triagonal_solve called on its own: right-hand sides of 2 to MaxUnknowns *)
(* values, each an integer of magnitude at most MaxRhs.                    *)
(***************************************************************************)
MaxUnknowns == 4
MaxRhs == 2

RECURSIVE RhsFrom(_, _)
RhsFrom(f, n) == IF n = 0 THEN <<>> ELSE Append(RhsFrom(f, n - 1), R(f[n]))

RightHandSides ==
    UNION {{RhsFrom(f, n) : f \in [1..n -> -MaxRhs..MaxRhs]} : n \in 2..MaxUnknowns}

InitSolve ==
    /\ svals = [smooth_specified |-> FALSE, ang_min |-> 60, ang_max |-> 120]
    /\ stroke = NoStroke
    /\ new_stroke = NoStroke
    /\ arrays = NoArrays
    /\ status = "idle"
    /\ asd_in \in RightHandSides
    /\ asb_out = <<>>

\* the call triagonal_solve(asb, asd), asb sized like asd by g_array_set_size
Solve ==
    /\ asd_in # <<>>
    /\ asb_out = <<>>
    /\ asb_out' = triagonal_solve(Filled(Len(asd_in), R(0)), asd_in)
    /\ UNCHANGED <<svals, stroke, new_stroke, arrays, status, asd_in>>

NextSolve == Solve

SpecSolve == InitSolve /\ [][NextSolve]_vars

(***************************************************************************)
(* Vocabulary of the properties.  Anchor i of a stroke has its incoming    *)
(* handle at ctlpts[6i], its position at ctlpts[6i + 2] and its outgoing   *)
(* handle at ctlpts[6i + 4]; segment n runs from anchor n to anchor n + 1, *)
(* and to anchor 0 from the last anchor of a closed stroke.                *)
(***************************************************************************)
\* smooth_path has run: the new path holds the stroke set_bezier_path added
Smoothed == status = "SUCCESS" /\ new_stroke # NoStroke
NumAnchors == Len(stroke.ctlpts) \div 6
AnchorIds == 0..(NumAnchors - 1)
Restricted == svals.smooth_specified

PointAt(ctlpts, k) == <<Ix(ctlpts, k), Ix(ctlpts, k + 1)>>
Incoming(ctlpts, i) == PointAt(ctlpts, 6 * i)
Position(ctlpts, i) == PointAt(ctlpts, 6 * i + 2)
Outgoing(ctlpts, i) == PointAt(ctlpts, 6 * i + 4)

PrevAnchor(i) == (i + NumAnchors - 1) % NumAnchors
NextAnchor(i) == (i + 1) % NumAnchors
SegmentIds == 0..(IF stroke.closed THEN NumAnchors - 1 ELSE NumAnchors - 2)
HasCorner(i) == stroke.closed \/ (0 < i /\ i < NumAnchors - 1)

\* con1 and con2 of segment n, from the fitted node values of its two ends
NodeOf(b, i) == Ix(b, IF stroke.closed THEN i + 1 ELSE i)
Third(p, q) == RDiv(RAdd(RMul(R(2), p), q), R(3))
SegCon1(n) == <<Third(NodeOf(arrays.bx, n), NodeOf(arrays.bx, n + 1)),
                Third(NodeOf(arrays.by, n), NodeOf(arrays.by, n + 1))>>
SegCon2(n) == <<Third(NodeOf(arrays.bx, n + 1), NodeOf(arrays.bx, n)),
                Third(NodeOf(arrays.by, n + 1), NodeOf(arrays.by, n))>>

\* the classifier on the corner at anchor i, on the input's anchor positions
Classified(i) ==
    LET a == Position(stroke.ctlpts, PrevAnchor(i))
        b == Position(stroke.ctlpts, i)
        c == Position(stroke.ctlpts, NextAnchor(i))
    IN  angle_between(svals, a[1], a[2], b[1], b[2], c[1], c[2]) # 0

(* C1: a stroke with fewer than 3 anchors, open or closed, comes out of    *)
(* set_bezier_path with the same scalars, length and closed flag, under    *)
(* every setting, and no array is built for it.                            *)
C1_FewAnchorsUnchanged ==
    (Smoothed /\ NumAnchors < 3) =>
        /\ new_stroke = stroke
        /\ arrays = NoArrays

C1_Witness ==
    /\ Smoothed /\ NumAnchors = 2 /\ stroke.closed /\ Restricted
    /\ new_stroke = stroke

(* C2: the output stroke has as many scalars as the input, the same closed *)
(* flag and the same anchor positions; only handle scalars may differ.     *)
C2_AnchorsKept ==
    Smoothed =>
        /\ Len(new_stroke.ctlpts) = Len(stroke.ctlpts)
        /\ new_stroke.closed = stroke.closed
        /\ \A i \in AnchorIds :
              Position(new_stroke.ctlpts, i) = Position(stroke.ctlpts, i)

C2_Witness ==
    /\ Smoothed /\ NumAnchors >= 3 /\ stroke.closed
    /\ \A i \in AnchorIds :
          /\ Incoming(new_stroke.ctlpts, i) # Incoming(stroke.ctlpts, i)
          /\ Outgoing(new_stroke.ctlpts, i) # Outgoing(stroke.ctlpts, i)
          /\ Position(new_stroke.ctlpts, i) = Position(stroke.ctlpts, i)

(* C3: with restrict_to_corners off and at least 3 anchors, every          *)
(* segment's two interior control points are its con1 and con2, whatever   *)
(* the corner angles and ang_min/ang_max: m - 1 segments of an open        *)
(* stroke, m segments of a closed one.                                     *)
C3_UnrestrictedSmoothsAll ==
    (Smoothed /\ ~Restricted /\ NumAnchors >= 3) =>
        \A n \in SegmentIds :
            /\ Outgoing(new_stroke.ctlpts, n) = SegCon1(n)
            /\ Incoming(new_stroke.ctlpts, NextAnchor(n)) = SegCon2(n)

C3_Witness ==
    /\ Smoothed /\ ~Restricted /\ NumAnchors >= 4 /\ stroke.closed
    /\ svals.ang_max = 180
    /\ Incoming(new_stroke.ctlpts, 0) = SegCon2(NumAnchors - 1)
    /\ Incoming(new_stroke.ctlpts, 0) # Incoming(stroke.ctlpts, 0)

(* C4: with restrict_to_corners on, an anchor that has a corner gets con1  *)
(* of its outgoing segment and con2 of its incoming segment exactly when   *)
(* the classifier holds of (previous anchor, anchor, next anchor) on the   *)
(* original positions, and keeps both original handles otherwise.          *)
C4_CornerGatesBothHandles ==
    (Smoothed /\ Restricted /\ NumAnchors >= 3) =>
        \A i \in AnchorIds :
            HasCorner(i) =>
                IF Classified(i)
                  THEN /\ Outgoing(new_stroke.ctlpts, i) = SegCon1(i)
                       /\ Incoming(new_stroke.ctlpts, i) = SegCon2(PrevAnchor(i))
                  ELSE /\ Outgoing(new_stroke.ctlpts, i) = Outgoing(stroke.ctlpts, i)
                       /\ Incoming(new_stroke.ctlpts, i) = Incoming(stroke.ctlpts, i)

C4_Witness ==
    /\ Smoothed /\ Restricted /\ NumAnchors >= 3 /\ stroke.closed
    /\ Classified(0) /\ ~Classified(NumAnchors - 1)
    /\ Incoming(new_stroke.ctlpts, 0) # Incoming(stroke.ctlpts, 0)
    /\ Outgoing(new_stroke.ctlpts, 0) # Outgoing(stroke.ctlpts, 0)
    /\ Outgoing(new_stroke.ctlpts, NumAnchors - 1)
           = Outgoing(stroke.ctlpts, NumAnchors - 1)

(* C5: the end anchors of an open stroke with at least 3 anchors are not   *)
(* angle-gated: the first outgoing and the last incoming handle are        *)
(* replaced exactly when restrict_to_corners is off, and the first         *)
(* incoming and the last outgoing handle are never modified.               *)
C5_OpenEndpoints ==
    (Smoothed /\ ~stroke.closed /\ NumAnchors >= 3) =>
        LET last == NumAnchors - 1
        IN  /\ Outgoing(new_stroke.ctlpts, 0) =
                   IF Restricted THEN Outgoing(stroke.ctlpts, 0) ELSE SegCon1(0)
            /\ Incoming(new_stroke.ctlpts, last) =
                   IF Restricted THEN Incoming(stroke.ctlpts, last)
                                 ELSE SegCon2(last - 1)
            /\ Incoming(new_stroke.ctlpts, 0) = Incoming(stroke.ctlpts, 0)
            /\ Outgoing(new_stroke.ctlpts, last) = Outgoing(stroke.ctlpts, last)

C5_Witness ==
    /\ Smoothed /\ ~stroke.closed /\ NumAnchors >= 3 /\ Restricted
    /\ Classified(1)
    /\ Outgoing(new_stroke.ctlpts, 1) # Outgoing(stroke.ctlpts, 1)
    /\ Outgoing(new_stroke.ctlpts, 0) = Outgoing(stroke.ctlpts, 0)
    /\ SegCon1(0) # Outgoing(stroke.ctlpts, 0)

\* atan2's arguments for the corner at anchor i of the input
Turn(i) ==
    LET a == Position(stroke.ctlpts, PrevAnchor(i))
        b == Position(stroke.ctlpts, i)
        c == Position(stroke.ctlpts, NextAnchor(i))
    IN  Atan2Args(RSub(b[1], a[1]), RSub(b[2], a[2]),
                  RSub(c[1], b[1]), RSub(c[2], b[2]))

\* the interior angle at anchor i is below, at, or above T degrees
AngleBelow(i, T) == RetCmp(Turn(i), T) = -1
AngleIs(i, T) == RetCmp(Turn(i), T) = 0
AngleAbove(i, T) == RetCmp(Turn(i), T) = 1

AngleRule(i) ==
    IF svals.ang_max > svals.ang_min
      THEN AngleBelow(i, svals.ang_max) /\ AngleAbove(i, svals.ang_min)
      ELSE AngleBelow(i, svals.ang_max) \/ AngleAbove(i, svals.ang_min)

HandlesKept(i) ==
    /\ Outgoing(new_stroke.ctlpts, i) = Outgoing(stroke.ctlpts, i)
    /\ Incoming(new_stroke.ctlpts, i) = Incoming(stroke.ctlpts, i)

HandlesSmoothed(i) ==
    /\ Outgoing(new_stroke.ctlpts, i) = SegCon1(i)
    /\ Incoming(new_stroke.ctlpts, i) = SegCon2(PrevAnchor(i))

(* C6: with restrict_to_corners on, a corner of interior angle t is        *)
(* smoothed exactly when (t < ang_max and t > ang_min) if ang_max >        *)
(* ang_min, and when (t < ang_max or t > ang_min) otherwise; both          *)
(* comparisons are strict, so t equal to a bound does not qualify through  *)
(* that bound.                                                             *)
C6_StrictAngleRule ==
    (Smoothed /\ Restricted /\ NumAnchors >= 3) =>
        \A i \in AnchorIds :
            HasCorner(i) =>
                /\ IF AngleRule(i) THEN HandlesSmoothed(i) ELSE HandlesKept(i)
                /\ (AngleIs(i, svals.ang_max) /\ ~AngleAbove(i, svals.ang_min))
                       => HandlesKept(i)
                /\ (AngleIs(i, svals.ang_min) /\ ~AngleBelow(i, svals.ang_max))
                       => HandlesKept(i)
                /\ (AngleIs(i, svals.ang_max) /\ svals.ang_max > svals.ang_min)
                       => HandlesKept(i)

\* the straight corner (0,0), (1,0), (2,0) under ang_min = 170, ang_max = 180
C6_Witness ==
    /\ Smoothed /\ Restricted /\ NumAnchors >= 3 /\ ~stroke.closed
    /\ svals.ang_min = 170 /\ svals.ang_max = 180
    /\ Position(stroke.ctlpts, 0) = <<R(0), R(0)>>
    /\ Position(stroke.ctlpts, 1) = <<R(1), R(0)>>
    /\ Position(stroke.ctlpts, 2) = <<R(2), R(0)>>
    /\ AngleIs(1, 180)
    /\ HandlesKept(1) /\ ~HandlesSmoothed(1)

(* C7: a closed stroke with at least 3 anchors smoothed with               *)
(* restrict_to_corners off is smooth across every anchor, 0 and m - 1      *)
(* included: per axis, incoming + outgoing = 2 * anchor, and the second    *)
(* derivatives of the two segments meeting at the anchor agree.            *)
SymmetricAt(i, k) ==
    RAdd(Incoming(new_stroke.ctlpts, i)[k], Outgoing(new_stroke.ctlpts, i)[k])
        = RMul(R(2), Position(new_stroke.ctlpts, i)[k])

CurvatureAgreesAt(i, k) ==
    LET a == Position(new_stroke.ctlpts, i)[k]
    IN  RAdd(RSub(a, RMul(R(2), Incoming(new_stroke.ctlpts, i)[k])),
             Outgoing(new_stroke.ctlpts, PrevAnchor(i))[k])
        = RAdd(RSub(a, RMul(R(2), Outgoing(new_stroke.ctlpts, i)[k])),
               Incoming(new_stroke.ctlpts, NextAnchor(i))[k])

C7_ClosedSmoothAtEveryAnchor ==
    (Smoothed /\ stroke.closed /\ NumAnchors >= 3 /\ ~Restricted) =>
        \A i \in AnchorIds : \A k \in {1, 2} :
            SymmetricAt(i, k) /\ CurvatureAgreesAt(i, k)

(* C8: smoothing commutes with rotating the anchor list of a closed stroke *)
(* of at least 3 anchors by one position, under every setting.             *)
Rotated(ctlpts) == SubSeq(ctlpts, 7, Len(ctlpts)) \o SubSeq(ctlpts, 1, 6)

C8_RotationCommutes ==
    (Smoothed /\ stroke.closed /\ NumAnchors >= 3) =>
        set_bezier_path(svals, Rotated(stroke.ctlpts), TRUE,
                        Arrays(Rotated(stroke.ctlpts), TRUE))
            = NewFromPoints(Rotated(new_stroke.ctlpts), TRUE)

(* C9: with restrict_to_corners on and the classifier false at every       *)
(* corner of the stroke, the output stroke equals the input stroke, open   *)
(* or closed.                                                              *)
C9_NoCornerNoChange ==
    (/\ Smoothed /\ Restricted /\ NumAnchors >= 3
     /\ \A i \in AnchorIds : HasCorner(i) => ~Classified(i))
        => new_stroke = stroke

\* a right-angle zig-zag of 4 anchors under ang_min = 170, ang_max = 180
C9_Witness ==
    /\ Smoothed /\ Restricted /\ NumAnchors = 4 /\ ~stroke.closed
    /\ svals.ang_min = 170 /\ svals.ang_max = 180
    /\ Turn(1).x = R(0) /\ Turn(1).y # R(0)
    /\ \A i \in AnchorIds : HasCorner(i) => ~Classified(i)
    /\ \A n \in SegmentIds : SegCon1(n) # Outgoing(stroke.ctlpts, n)
    /\ new_stroke = stroke

(* C10: for an open stroke of at least 3 anchors whose anchor values on an *)
(* axis form an arithmetic progression with step d, the fit of that axis   *)
(* returns the anchor values as node values, and con1 and con2 of segment  *)
(* n (from anchor n - 1 to anchor n) are a[n - 1] + d / 3 and              *)
(* a[n - 1] + 2 d / 3, for 3 anchors (closed form) and for more            *)
(* (triagonal_solve).                                                      *)
IsProgression(a) ==
    \A i \in 1..(Len(a) - 1) : RSub(Ix(a, i), Ix(a, i - 1)) = RSub(Ix(a, 1), Ix(a, 0))

LineReproduced(a, b, con1, con2) ==
    LET d == RSub(Ix(a, 1), Ix(a, 0))
    IN  /\ b = a
        /\ Len(con1) = Len(a) - 1
        /\ Len(con2) = Len(a) - 1
        /\ \A n \in 1..(Len(a) - 1) :
              /\ Ix(con1, n - 1) = RAdd(Ix(a, n - 1), RDiv(d, R(3)))
              /\ Ix(con2, n - 1) = RAdd(Ix(a, n - 1), RDiv(RMul(R(2), d), R(3)))

C10_LineReproduced ==
    (Smoothed /\ ~stroke.closed /\ NumAnchors >= 3) =>
        /\ IsProgression(AnchorAxis(stroke.ctlpts, 2)) =>
              LineReproduced(AnchorAxis(stroke.ctlpts, 2), arrays.bx,
                             arrays.x1, arrays.x2)
        /\ IsProgression(AnchorAxis(stroke.ctlpts, 3)) =>
              LineReproduced(AnchorAxis(stroke.ctlpts, 3), arrays.by,
                             arrays.y1, arrays.y2)

\* the anchors (1,0), (3,-1), (5,-2), (7,-3), solved by triagonal_solve
C10_Witness ==
    /\ Smoothed /\ ~stroke.closed /\ NumAnchors = 4
    /\ AnchorAxis(stroke.ctlpts, 2) = <<R(1), R(3), R(5), R(7)>>
    /\ AnchorAxis(stroke.ctlpts, 3) = <<R(0), R(-1), R(-2), R(-3)>>
    /\ arrays.bx = <<R(1), R(3), R(5), R(7)>>
    /\ arrays.x1 = <<<<5, 3>>, <<11, 3>>, <<17, 3>>>>
    /\ arrays.x2 = <<<<7, 3>>, <<13, 3>>, <<19, 3>>>>
    /\ arrays.y1 = <<<<-1, 3>>, <<-4, 3>>, <<-7, 3>>>>
    /\ arrays.y2 = <<<<-2, 3>>, <<-5, 3>>, <<-8, 3>>>>

(* C11: for every right-hand side of n >= 2 values, the array returned by  *)
(* triagonal_solve satisfies, in exact arithmetic, the system with 4 on    *)
(* the diagonal and 1 beside it: 4 x[0] + x[1] = rhs[0],                   *)
(* x[i - 1] + 4 x[i] + x[i + 1] = rhs[i] for 0 < i < n - 1, and            *)
(* x[n - 2] + 4 x[n - 1] = rhs[n - 1].                                     *)
Solved == asb_out # <<>>

\* row i of the matrix applied to x
RowTimes(x, i) ==
    LET n    == Len(x)
        left == IF i > 0 THEN Ix(x, i - 1) ELSE R(0)
        rght == IF i < n - 1 THEN Ix(x, i + 1) ELSE R(0)
    IN  RAdd(RAdd(left, RMul(R(4), Ix(x, i))), rght)

C11_SolveRoundTrip ==
    (Solved /\ Len(asd_in) >= 2) =>
        /\ Len(asb_out) = Len(asd_in)
        /\ \A i \in 0..(Len(asd_in) - 1) : RowTimes(asb_out, i) = Ix(asd_in, i)

\* the right-hand side (1, 2, -1, 2)
C11_Witness ==
    /\ Solved
    /\ asd_in = <<R(1), R(2), R(-1), R(2)>>
    /\ asb_out = <<<<20, 209>>, <<129, 209>>, <<-118, 209>>, <<134, 209>>>>
    /\ \A i \in 0..3 : RowTimes(asb_out, i) = Ix(asd_in, i)

(* C12: an open stroke of at least 3 anchors smoothed with                  *)
(* restrict_to_corners off is C1 and C2 continuous at every interior       *)
(* anchor i: per axis incoming(i) + outgoing(i) = 2 anchor(i) and          *)
(* anchor(i) - 2 incoming(i) + outgoing(i - 1)                             *)
(*     = anchor(i) - 2 outgoing(i) + incoming(i + 1);                      *)
(* the fitted node values satisfy b[i - 1] + 4 b[i] + b[i + 1] = 6 a[i]    *)
(* with b[0] = a[0] and b[m - 1] = a[m - 1].                               *)
InteriorIds == 1..(NumAnchors - 2)

NodeEquations(a, b) ==
    /\ Len(b) = Len(a)
    /\ Ix(b, 0) = Ix(a, 0)
    /\ Ix(b, Len(a) - 1) = Ix(a, Len(a) - 1)
    /\ \A i \in 1..(Len(a) - 2) :
          RAdd(RAdd(Ix(b, i - 1), RMul(R(4), Ix(b, i))), Ix(b, i + 1))
              = RMul(R(6), Ix(a, i))

C12_OpenContinuity ==
    (Smoothed /\ ~stroke.closed /\ NumAnchors >= 3 /\ ~Restricted) =>
        /\ NodeEquations(AnchorAxis(stroke.ctlpts, 2), arrays.bx)
        /\ NodeEquations(AnchorAxis(stroke.ctlpts, 3), arrays.by)
        /\ \A i \in InteriorIds : \A k \in {1, 2} :
              SymmetricAt(i, k) /\ CurvatureAgreesAt(i, k)

\* the open zig-zag (0,0), (1,0), (1,1), (2,0): both interior anchors get new
\* handles, and the fitted nodes leave the anchors
C12_Witness ==
    /\ Smoothed /\ ~stroke.closed /\ ~Restricted
    /\ AnchorAxis(stroke.ctlpts, 2) = <<R(0), R(1), R(1), R(2)>>
    /\ AnchorAxis(stroke.ctlpts, 3) = <<R(0), R(0), R(1), R(0)>>
    /\ Ix(arrays.by, 1) # R(0)
    /\ \A i \in InteriorIds :
          /\ Incoming(new_stroke.ctlpts, i) # Incoming(stroke.ctlpts, i)
          /\ Outgoing(new_stroke.ctlpts, i) # Outgoing(stroke.ctlpts, i)
          /\ \A k \in {1, 2} : SymmetricAt(i, k) /\ CurvatureAgreesAt(i, k)

(* C13: for every stroke of at least 3 anchors, triagonal_solve is called  *)
(* with at least 2 unknowns only; the closed form is used exactly for an   *)
(* open stroke of exactly 3 anchors; a closed stroke of m anchors is       *)
(* padded to m + 3 values and solves m + 1 >= 4 unknowns; after the        *)
(* trimming aconx1, aconx2, acony1, acony2 hold one entry per segment      *)
(* (m - 1 open, m closed); and every index the update uses lies within     *)
(* these arrays and within ctlpts.                                         *)
AxisSizes(ac) ==
    /\ ~ClosedForm(ac) => Unknowns(ac) >= 2
    /\ ClosedForm(ac) <=> (~stroke.closed /\ NumAnchors = 3)
    /\ stroke.closed =>
          /\ Len(ac) = NumAnchors + 3
          /\ Unknowns(ac) = NumAnchors + 1
          /\ Unknowns(ac) >= 4
    /\ ~stroke.closed => Len(ac) = NumAnchors

OnePerSegment(acon) ==
    /\ Len(acon) = IF stroke.closed THEN NumAnchors ELSE NumAnchors - 1
    /\ ConIndices(NumAnchors, stroke.closed, Len(acon)) \subseteq 0..(Len(acon) - 1)

C13_SolverPrecondition ==
    (Smoothed /\ NumAnchors >= 3) =>
        /\ AxisSizes(AxisValues(stroke.ctlpts, stroke.closed, 0))
        /\ AxisSizes(AxisValues(stroke.ctlpts, stroke.closed, 1))
        /\ OnePerSegment(arrays.x1) /\ OnePerSegment(arrays.x2)
        /\ OnePerSegment(arrays.y1) /\ OnePerSegment(arrays.y2)
        /\ CtlIndices(Len(stroke.ctlpts), stroke.closed)
               \subseteq 0..(Len(stroke.ctlpts) - 1)

\* a closed stroke of 3 anchors: 6 values per axis, 4 unknowns, 3 segments
C13_Witness ==
    /\ Smoothed /\ stroke.closed /\ NumAnchors = 3
    /\ Unknowns(AxisValues(stroke.ctlpts, TRUE, 0)) = 4
    /\ Len(arrays.bx) = 6
    /\ Len(arrays.x1) = 3 /\ Len(arrays.y2) = 3
    /\ ConIndices(3, TRUE, Len(arrays.x2)) = {0, 1, 2}
    /\ new_stroke # stroke

====
